---- MODULE Spec2Model ----
(***************************************************************************)
(* Model of src/api/index.js: the Worker's fetch handler and the four      *)
(* extraction routines scrapeGoogleSearch / Images / Videos / News.        *)
(*                                                                         *)
(* One action is one awaited operation of a routine settling, together     *)
(* with the synchronous code that runs until the next await (or until the  *)
(* Response is returned).  Every awaited browser call may reject.          *)
(*                                                                         *)
(* Strings that the code only compares or copies (method, path, q, href)   *)
(* are TLA+ strings; text that the code trims (textContent) is a sequence  *)
(* of characters.  A value that may be null/undefined is a sequence of     *)
(* length 0 (None) or 1 (Some(x)).                                         *)
(***************************************************************************)
EXTENDS Integers, Sequences, FiniteSets, TLC

VARIABLES req, browsers

vars == <<req, browsers>>

----------------------------------------------------------------------------
(* Bounds *)

NReq == 2
MaxImgs == 56
MaxBlocks == 2

(* Program constants *)

ImageCap == 50
MinDim == 100

----------------------------------------------------------------------------
(* Optional values *)

None == <<>>
Some(x) == <<x>>

Min(a, b) == IF a < b THEN a ELSE b

----------------------------------------------------------------------------
(* Text: String.prototype.trim over sequences of characters *)

IsSpace(c) == c = " "

RECURSIVE TrimStart(_)
TrimStart(s) ==
  IF s = <<>> THEN <<>>
  ELSE IF IsSpace(Head(s)) THEN TrimStart(Tail(s)) ELSE s

RECURSIVE TrimEnd(_)
TrimEnd(s) ==
  IF s = <<>> THEN <<>>
  ELSE IF IsSpace(s[Len(s)]) THEN TrimEnd(SubSeq(s, 1, Len(s) - 1)) ELSE s

Trim(s) == TrimEnd(TrimStart(s))

(* el?.textContent.trim(): undefined when the node is missing *)
OptTrim(node) == IF node = None THEN None ELSE Some(Trim(node[1]))

(* x || dflt for an optional text: undefined and "" are both falsy *)
TextOr(x, dflt) == IF x = None \/ x[1] = <<>> THEN dflt ELSE x[1]

(* title && link, on an optional text and an optional href string *)
Truthy(x, empty) == x # None /\ x[1] # empty

----------------------------------------------------------------------------
(* The rendered document, as far as the extraction passes read it.          *)
(*   inputQ : value of input[name="q"], None when there is no such node     *)
(*   blocks : the result blocks in document order; of each, the text of     *)
(*            its first h3 (None: no h3), the href property of its first    *)
(*            anchor (None: no anchor) and the text of its cite             *)
(*   imgs   : the img nodes in document order, with their natural size      *)

Doc(inputQ, blocks, imgs) == [inputQ |-> inputQ, blocks |-> blocks, imgs |-> imgs]

EmptyDoc == Doc(None, <<>>, <<>>)

(* document.querySelector('input[name="q"]')?.value || ""                  *)
(* (in each pair below the first definition is a faulty variant of the     *)
(* second, kept to show that the properties depend on the second)          *)
QueryFieldNoFallback(doc) == IF doc.inputQ = None THEN "undefined" ELSE doc.inputQ[1]
QueryField(doc) == IF doc.inputQ = None \/ doc.inputQ[1] = "" THEN "" ELSE doc.inputQ[1]

(* if (titleElement && linkElement): the two nodes exist *)
HasTitleAndLink(b) == b.h3 # None /\ b.a # None

OrganicEntry(b) ==
  [title |-> Trim(b.h3[1]),
   url |-> b.a[1],
   displayUrl |-> TextOr(OptTrim(b.cite), <<>>)]

RECURSIVE OrganicResults(_)
OrganicResults(blocks) ==
  IF blocks = <<>> THEN <<>>
  ELSE IF HasTitleAndLink(Head(blocks))
       THEN <<OrganicEntry(Head(blocks))>> \o OrganicResults(Tail(blocks))
       ELSE OrganicResults(Tail(blocks))

(* page.evaluate callback of scrapeGoogleSearch: query and organicResults *)
ScrapeSearchDoc(doc) ==
  [query |-> QueryField(doc),
   organicResults |-> OrganicResults(doc.blocks)]

(* if (img.naturalWidth > 100 && img.naturalHeight > 100) *)
IsLarge(img) == img.w > MinDim /\ img.h > MinDim

ImageEntry(img) == [src |-> img.src, width |-> img.w, height |-> img.h]

RECURSIVE CollectImages(_)
CollectImages(imgs) ==
  IF imgs = <<>> THEN <<>>
  ELSE IF IsLarge(Head(imgs))
       THEN <<ImageEntry(Head(imgs))>> \o CollectImages(Tail(imgs))
       ELSE CollectImages(Tail(imgs))

(* images.slice(0, 50) *)
SliceCapOffByOne(images) == SubSeq(images, 1, Min(Len(images), ImageCap + 1))
SliceCap(images) == SubSeq(images, 1, Min(Len(images), ImageCap))

(* page.evaluate callback of scrapeGoogleImages *)
ScrapeImagesDoc(doc) ==
  LET images == CollectImages(doc.imgs)
  IN  [query |-> QueryField(doc),
       totalImages |-> Len(images),
       images |-> SliceCap(images)]

(* if (title && link): both extracted strings are non-empty *)
HasTitleAndLinkText(b) == Truthy(OptTrim(b.h3), <<>>) /\ Truthy(b.a, "")

ListEntry(b) == [title |-> Trim(b.h3[1]), url |-> b.a[1]]

RECURSIVE CollectEntries(_)
CollectEntries(blocks) ==
  IF blocks = <<>> THEN <<>>
  ELSE IF HasTitleAndLinkText(Head(blocks))
       THEN <<ListEntry(Head(blocks))>> \o CollectEntries(Tail(blocks))
       ELSE CollectEntries(Tail(blocks))

(* page.evaluate callback of scrapeGoogleVideos *)
ScrapeVideosDoc(doc) ==
  LET videos == CollectEntries(doc.blocks)
  IN  [query |-> QueryField(doc), totalVideos |-> Len(videos), videos |-> videos]

(* page.evaluate callback of scrapeGoogleNews *)
ScrapeNewsDoc(doc) ==
  LET articles == CollectEntries(doc.blocks)
  IN  [query |-> QueryField(doc), totalArticles |-> Len(articles), articles |-> articles]

----------------------------------------------------------------------------
(* Requests and responses *)

Methods == {"GET", "POST", "OPTIONS"}
ScrapePaths == {"/search", "/images", "/videos", "/news"}
HealthPaths == {"/", "/health"}
Paths == HealthPaths \cup ScrapePaths \cup {"/other"}
Queries == {None, Some(""), Some("openai")}

(* const corsHeaders = {...} *)
CorsHeaders ==
  {<<"Access-Control-Allow-Origin", "*">>,
   <<"Access-Control-Allow-Methods", "GET, POST, OPTIONS">>,
   <<"Access-Control-Allow-Headers", "Content-Type">>}

ContentTypeJson == <<"Content-Type", "application/json">>

(* headers: { ...corsHeaders, "Content-Type": "application/json" } *)
JsonHeadersNoSpread == {ContentTypeJson}
JsonHeaders == CorsHeaders \cup {ContentTypeJson}

Response(status, headers, body) ==
  [status |-> status, headers |-> headers, body |-> body]

(* new Response(null, { headers: corsHeaders }) *)
PreflightResponse == Response(200, CorsHeaders, [kind |-> "empty"])

HealthResponse ==
  Response(200, JsonHeaders, [kind |-> "health", status |-> "ok"])

ErrorBody(msg) == [kind |-> "error", error |-> msg]

MissingQueryResponse ==
  Response(400, JsonHeaders, ErrorBody("Missing query parameter 'q'"))

NotFoundNoStatus == Response(200, JsonHeaders, ErrorBody("Endpoint not found"))
NotFoundResponse == Response(404, JsonHeaders, ErrorBody("Endpoint not found"))

(* catch (error) { return new Response(JSON.stringify({error: error.message}), {status: 500, ...}) } *)
FailureResponse(msg) == Response(500, JsonHeaders, ErrorBody(msg))

(* return { success: true, timestamp, data }, serialised by fetch *)
Envelope(data) == [kind |-> "envelope", success |-> TRUE, data |-> data]
SuccessResponse(data) == Response(200, JsonHeaders, Envelope(data))

(* if (!query): null and "" are falsy *)
MissingQueryNullOnly(q) == q = None
MissingQuery(q) == q = None \/ q[1] = ""

Mode(path) ==
  CASE path = "/search" -> "web"
    [] path = "/images" -> "images"
    [] path = "/videos" -> "videos"
    [] path = "/news" -> "news"

(* Only scrapeGoogleImages has no page.waitForSelector; it scrolls instead *)
HasReadinessWait(mode) == mode # "images"

(* The selector given to page.waitForSelector *)
ReadinessMarkerSame(mode) == "#search"
ReadinessMarker(mode) ==
  CASE mode = "web" -> "#search"
    [] mode = "videos" -> ".g"
    [] mode = "news" -> ".SoaBEf, .WlydOe"

(* The second page.evaluate of each routine *)
ExtractionPass(mode, doc) ==
  CASE mode = "web" -> ScrapeSearchDoc(doc)
    [] mode = "images" -> ScrapeImagesDoc(doc)
    [] mode = "videos" -> ScrapeVideosDoc(doc)
    [] mode = "news" -> ScrapeNewsDoc(doc)

(* The message of the error a rejected call throws is named after the call *)
ErrMsg(step) == step

NewRequest(method, path, q, site) ==
  [method |-> method, path |-> path, q |-> q, site |-> site,
   pc |-> "fetch", browser |-> 0, err |-> None, data |-> None,
   trace |-> <<>>, resp |-> None]

NewBrowser(r) ==
  [owner |-> r, open |-> TRUE, closeCalls |-> 0, closedBy |-> {}, usedBy |-> {}]

Reqs == DOMAIN req

(* const browser: the binding is local to one invocation of a routine *)
BrowserOfShared(r) == Len(browsers)
BrowserOf(r) == req[r].browser

Logged(r, step, ok, arg) ==
  Append(req[r].trace, [step |-> step, ok |-> ok, arg |-> arg])

(* The promise returned by the routine rejects and fetch's catch answers *)
Rejected(r, step, arg, msg) ==
  [req EXCEPT ![r].pc = "done",
              ![r].trace = Logged(r, step, FALSE, arg),
              ![r].resp = Some(FailureResponse(msg))]

(* An awaited call inside try { } rejects: control enters catch (error) *)
Caught(r, step, arg) ==
  [req EXCEPT ![r].pc = "catchClose",
              ![r].trace = Logged(r, step, FALSE, arg),
              ![r].err = Some(ErrMsg(step))]

Advanced(r, step, arg, next) ==
  [req EXCEPT ![r].pc = next, ![r].trace = Logged(r, step, TRUE, arg)]

(* A call on a browser that has been closed cannot succeed *)
Outcomes(r) == IF browsers[BrowserOf(r)].open THEN BOOLEAN ELSE {FALSE}

Used(r) == [browsers EXCEPT ![BrowserOf(r)].usedBy = @ \cup {r}]

----------------------------------------------------------------------------
(* Actions *)

(* fetch, up to its first await: preflight, health, 400, 404, or the call  *)
(* of the path's routine, which runs synchronously to puppeteer.launch     *)
Fetch(r) ==
  /\ req[r].pc = "fetch"
  /\ req' =
       IF req[r].method = "OPTIONS"
       THEN [req EXCEPT ![r].pc = "done", ![r].resp = Some(PreflightResponse)]
       ELSE IF req[r].path \in HealthPaths
       THEN [req EXCEPT ![r].pc = "done", ![r].resp = Some(HealthResponse)]
       ELSE IF req[r].path \in ScrapePaths
       THEN IF MissingQuery(req[r].q)
            THEN [req EXCEPT ![r].pc = "done", ![r].resp = Some(MissingQueryResponse)]
            ELSE [req EXCEPT ![r].pc = "launch"]
       ELSE [req EXCEPT ![r].pc = "done", ![r].resp = Some(NotFoundResponse)]
  /\ UNCHANGED browsers

(* const browser = await puppeteer.launch(env.MYBROWSER) *)
Launch(r) ==
  /\ req[r].pc = "launch"
  /\ \E ok \in BOOLEAN :
       IF ok
       THEN /\ browsers' = Append(browsers, NewBrowser(r))
            /\ req' = [Advanced(r, "launch", "", "newPage")
                         EXCEPT ![r].browser = Len(browsers) + 1]
       ELSE /\ req' = Rejected(r, "launch", "", ErrMsg("launch"))
            /\ UNCHANGED browsers

(* const page = await browser.newPage(), before the try block *)
NewPage(r) ==
  /\ req[r].pc = "newPage"
  /\ browsers' = Used(r)
  /\ \E ok \in Outcomes(r) :
       req' = IF ok
              THEN Advanced(r, "newPage", "", "setUserAgent")
              ELSE Rejected(r, "newPage", "", ErrMsg("newPage"))

(* await page.setUserAgent(...) *)
SetUserAgent(r) ==
  /\ req[r].pc = "setUserAgent"
  /\ browsers' = Used(r)
  /\ \E ok \in Outcomes(r) :
       req' = IF ok
              THEN Advanced(r, "setUserAgent", "", "goto")
              ELSE Caught(r, "setUserAgent", "")

(* await page.goto(searchUrl, { waitUntil: "networkidle0", timeout: 30000 }) *)
Goto(r) ==
  /\ req[r].pc = "goto"
  /\ browsers' = Used(r)
  /\ \E ok \in Outcomes(r) :
       req' = IF ok
              THEN Advanced(r, "goto", "",
                            IF HasReadinessWait(Mode(req[r].path))
                            THEN "waitForSelector" ELSE "scroll")
              ELSE Caught(r, "goto", "")

(* await page.waitForSelector(marker, { timeout: 10000 }) *)
WaitForSelector(r) ==
  /\ req[r].pc = "waitForSelector"
  /\ browsers' = Used(r)
  /\ LET marker == ReadinessMarker(Mode(req[r].path))
     IN  \E ok \in Outcomes(r) :
           req' = IF ok
                  THEN Advanced(r, "waitForSelector", marker, "evaluate")
                  ELSE Caught(r, "waitForSelector", marker)

(* await page.evaluate(async () => { three scrollBy + 1 s waits }) *)
Scroll(r) ==
  /\ req[r].pc = "scroll"
  /\ browsers' = Used(r)
  /\ \E ok \in Outcomes(r) :
       req' = IF ok
              THEN Advanced(r, "scroll", "", "evaluate")
              ELSE Caught(r, "scroll", "")

(* const data = await page.evaluate(() => { ... }) *)
Evaluate(r) ==
  /\ req[r].pc = "evaluate"
  /\ browsers' = Used(r)
  /\ \E ok \in Outcomes(r) :
       req' = IF ok
              THEN [Advanced(r, "evaluate", "", "close")
                      EXCEPT ![r].data =
                        Some(ExtractionPass(Mode(req[r].path), req[r].site))]
              ELSE Caught(r, "evaluate", "")

Closing(r, ok) ==
  [browsers EXCEPT ![BrowserOf(r)].closeCalls = @ + 1,
                   ![BrowserOf(r)].closedBy = @ \cup {r},
                   ![BrowserOf(r)].open = IF ok THEN FALSE ELSE @]

(* await browser.close(); return {...} at the end of the try block; fetch  *)
(* then serialises the envelope.  A rejection here is caught by the same  *)
(* try's catch.                                                           *)
Close(r) ==
  /\ req[r].pc = "close"
  /\ \E ok \in BOOLEAN :
       /\ browsers' = Closing(r, ok)
       /\ req' = IF ok
                 THEN [req EXCEPT ![r].pc = "done",
                                  ![r].trace = Logged(r, "close", TRUE, ""),
                                  ![r].resp = Some(SuccessResponse(req[r].data[1]))]
                 ELSE Caught(r, "close", "")

(* catch (error) { await browser.close(); throw error; }: when this close *)
(* rejects, its error replaces the caught one                             *)
CatchClose(r) ==
  /\ req[r].pc = "catchClose"
  /\ \E ok \in BOOLEAN :
       /\ browsers' = Closing(r, ok)
       /\ req' = IF ok
                 THEN [req EXCEPT ![r].pc = "done",
                                  ![r].trace = Logged(r, "close", TRUE, "catch"),
                                  ![r].resp = Some(FailureResponse(req[r].err[1]))]
                 ELSE Rejected(r, "close", "catch", ErrMsg("close"))

Next ==
  \/ \E r \in Reqs : Fetch(r)
  \/ \E r \in Reqs : Launch(r)
  \/ \E r \in Reqs : NewPage(r)
  \/ \E r \in Reqs : SetUserAgent(r)
  \/ \E r \in Reqs : Goto(r)
  \/ \E r \in Reqs : WaitForSelector(r)
  \/ \E r \in Reqs : Scroll(r)
  \/ \E r \in Reqs : Evaluate(r)
  \/ \E r \in Reqs : Close(r)
  \/ \E r \in Reqs : CatchClose(r)

----------------------------------------------------------------------------
(* Inputs *)

Texts == {<<>>, <<" ">>, <<" ", "a", " ">>}
Hrefs == {None, Some(""), Some("https://a.example/")}

Blocks ==
  {[h3 |-> h, a |-> a, cite |-> None] :
     h \in {None} \cup {Some(t) : t \in Texts}, a \in Hrefs}

BlockSeqs == UNION {[1..n -> Blocks] : n \in 0..MaxBlocks}

InputValues == {None, Some(""), Some("openai"), Some("open ai")}

ListDocs ==
  {Doc(Some("openai"), bs, <<>>) : bs \in BlockSeqs}
    \cup {Doc(v, <<>>, <<>>) : v \in InputValues}

Sizes == {<<100, 100>>, <<100, 101>>, <<101, 100>>, <<101, 101>>}
ImageCounts == (0..3) \cup ((ImageCap - 1)..MaxImgs)
Periods == {1, 2, 10}

ImageNodes(n, k, A, B) ==
  [i \in 1..n |->
     LET size == IF i % k = 0 THEN A ELSE B
     IN  [src |-> i, w |-> size[1], h |-> size[2]]]

ImageDocs ==
  {Doc(Some("openai"), <<>>, ImageNodes(n, k, A, B)) :
     n \in ImageCounts, k \in Periods, A \in Sizes, B \in Sizes}

(* The documents the site may render for a path *)
Sites(path) == IF path = "/images" THEN ImageDocs ELSE ListDocs

(* One request of any method, path and q; the document matters only to a  *)
(* request that is routed to a routine                                    *)
Requests ==
  {NewRequest(m, p, q, EmptyDoc) : m \in Methods, p \in Paths, q \in Queries}
    \cup UNION {{NewRequest("GET", p, Some("openai"), d) : d \in Sites(p)} :
                  p \in ScrapePaths}

Init ==
  /\ req \in [1..1 -> Requests]
  /\ browsers = <<>>

Spec == Init /\ [][Next]_vars

(* NReq requests in flight at once *)
ConcurrentRequests ==
  {NewRequest("GET", "/videos", Some("openai"),
              Doc(Some("openai"), <<>>, <<>>)),
   NewRequest("GET", "/images", Some("openai"),
              Doc(Some("openai"), <<>>, ImageNodes(1, 1, <<101, 101>>, <<101, 101>>)))}

InitConcurrent ==
  /\ req \in [1..NReq -> ConcurrentRequests]
  /\ browsers = <<>>

SpecConcurrent == InitConcurrent /\ [][Next]_vars

----------------------------------------------------------------------------
(* Properties *)

Done(r) == req[r].pc = "done"
Resp(r) == req[r].resp[1]
Scraping(r) ==
  /\ req[r].method # "OPTIONS"
  /\ req[r].path \in ScrapePaths
  /\ req[r].q # None
  /\ req[r].q[1] # ""
FailedAt(r) == {i \in 1..Len(req[r].trace) : ~req[r].trace[i].ok}
FirstFailure(r) ==
  req[r].trace[CHOOSE i \in FailedAt(r) : \A j \in FailedAt(r) : i <= j]

(* C1: once a routine holds a browser, close has been invoked on it       *)
(* exactly once by the time the routine settles, on every path, whichever *)
(* later step failed (newPage and close included); never zero times,      *)
(* never twice.                                                           *)
C1_ClosedExactlyOnce ==
  \A r \in Reqs :
    req[r].browser # 0 =>
      /\ browsers[req[r].browser].closeCalls <= 1
      /\ Done(r) => browsers[req[r].browser].closeCalls = 1

(* C2: when launch, navigation, the readiness wait or the in-page         *)
(* evaluation of a routed request fails, the response is 500, its error   *)
(* is the message of the failure that occurred first, and no step ran     *)
(* twice.                                                                 *)
C2_FirstFailureSurfaced ==
  \A r \in Reqs :
    (/\ Done(r)
     /\ Scraping(r)
     /\ \E i \in FailedAt(r) :
          req[r].trace[i].step \in {"launch", "goto", "waitForSelector", "evaluate"})
    => /\ Resp(r).status = 500
       /\ Resp(r).body = [kind |-> "error", error |-> ErrMsg(FirstFailure(r).step)]
       /\ \A i, j \in 1..Len(req[r].trace) :
            (i # j /\ req[r].trace[i].step = req[r].trace[j].step)
              => req[r].trace[i].step = "close"

(* C3: a non-OPTIONS request to one of the four paths whose q is absent   *)
(* or empty is answered 400 "Missing query parameter 'q'", and its        *)
(* routine is never invoked: nothing is launched and no step runs.        *)
C3_MissingQueryRejected ==
  \A r \in Reqs :
    (/\ req[r].method # "OPTIONS"
     /\ req[r].path \in ScrapePaths
     /\ req[r].q \in {None, Some("")})
    => /\ req[r].pc \in {"fetch", "done"}
       /\ req[r].trace = <<>>
       /\ req[r].browser = 0
       /\ \A h \in 1..Len(browsers) : browsers[h].owner # r
       /\ Done(r) =>
            /\ Resp(r).status = 400
            /\ Resp(r).body = [kind |-> "error", error |-> "Missing query parameter 'q'"]

C3_Witness ==
  \E r \in Reqs :
    /\ req[r].method = "GET" /\ req[r].path = "/news" /\ req[r].q = Some("")
    /\ Done(r) /\ Resp(r).status = 400

LargeNodes(doc) ==
  {i \in 1..Len(doc.imgs) : doc.imgs[i].w > 100 /\ doc.imgs[i].h > 100}

(* C4: in image mode the images list has at most 50 entries, they are the *)
(* first 50, in document order, of the nodes whose natural width and      *)
(* height both exceed 100, and totalImages counts all such nodes.         *)
C4_ImagesCapped ==
  \A r \in Reqs :
    (req[r].path = "/images" /\ req[r].data # None)
    => LET d == req[r].data[1]
           F == LargeNodes(req[r].site)
       IN  /\ Len(d.images) <= 50
           /\ d.totalImages = Cardinality(F)
           /\ d.totalImages >= Len(d.images)
           /\ Len(d.images) = Min(50, Cardinality(F))
           /\ \A k \in 1..Len(d.images) :
                /\ d.images[k].src \in F
                /\ Cardinality({j \in F : j < d.images[k].src}) = k - 1
           /\ Done(r) /\ Resp(r).status = 200 => Resp(r).body.data = d

C4_Witness ==
  \E r \in Reqs :
    /\ req[r].path = "/images" /\ req[r].method = "GET"
    /\ Done(r) /\ Resp(r).status = 200
    /\ Resp(r).body.data.totalImages > 50
    /\ Len(Resp(r).body.data.images) = 50
    /\ \E i \in 1..Len(req[r].site.imgs) : i \notin LargeNodes(req[r].site)

(* C5: in web mode every organicResults entry has a non-empty title and a *)
(* non-empty url; a block whose heading text is empty or blank, or whose  *)
(* anchor has an empty href, is left out.                                 *)
C5_OrganicNonEmpty ==
  \A r \in Reqs :
    (req[r].path = "/search" /\ req[r].data # None)
    => \A k \in 1..Len(req[r].data[1].organicResults) :
         /\ req[r].data[1].organicResults[k].title # <<>>
         /\ req[r].data[1].organicResults[k].url # ""

(* C6: every response, the OPTIONS preflight included, carries the        *)
(* cross-origin headers and Content-Type: application/json.               *)
C6_AllResponsesJson ==
  \A r \in Reqs :
    Done(r) => /\ CorsHeaders \subseteq Resp(r).headers
               /\ ContentTypeJson \in Resp(r).headers

(* C6, amended: every response carries the cross-origin headers; every    *)
(* response but the OPTIONS preflight carries Content-Type:               *)
(* application/json; the preflight is an empty 200 without Content-Type.  *)
C6_CorsAlwaysJsonUnlessPreflight ==
  \A r \in Reqs :
    Done(r) =>
      /\ \A name \in {"Access-Control-Allow-Origin", "Access-Control-Allow-Methods",
                      "Access-Control-Allow-Headers"} :
           \E h \in Resp(r).headers : h[1] = name
      /\ <<"Access-Control-Allow-Origin", "*">> \in Resp(r).headers
      /\ req[r].method # "OPTIONS" =>
           <<"Content-Type", "application/json">> \in Resp(r).headers
      /\ req[r].method = "OPTIONS" =>
           /\ \A h \in Resp(r).headers : h[1] # "Content-Type"
           /\ Resp(r).status = 200
           /\ Resp(r).body.kind = "empty"

C6_Witness ==
  \E r \in Reqs :
    /\ Done(r) /\ req[r].method = "OPTIONS" /\ req[r].path = "/search"
    /\ CorsHeaders \subseteq Resp(r).headers
    /\ ContentTypeJson \notin Resp(r).headers

(* C7: a successful /search response has success: true and data.query     *)
(* equal to the request's q, whatever the document contains.              *)
C7_QueryEchoesRequest ==
  \A r \in Reqs :
    (req[r].path = "/search" /\ Scraping(r) /\ Done(r) /\ Resp(r).status = 200)
    => /\ Resp(r).body.success = TRUE
       /\ Resp(r).body.data.query = req[r].q[1]

(* C7, amended: a successful /search response has success: true and       *)
(* data.query equal to the value of the document's input[name="q"], or "" *)
(* when the document has no such input; it equals q when that input       *)
(* echoes q.                                                              *)
C7_QueryFromDocument ==
  \A r \in Reqs :
    (req[r].path = "/search" /\ Scraping(r) /\ Done(r) /\ Resp(r).status = 200)
    => /\ Resp(r).body.success = TRUE
       /\ Resp(r).body.data.query =
            (IF req[r].site.inputQ = None THEN "" ELSE req[r].site.inputQ[1])
       /\ req[r].site.inputQ = req[r].q => Resp(r).body.data.query = req[r].q[1]

C7_Witness ==
  \E r \in Reqs :
    /\ req[r].path = "/search" /\ req[r].method = "GET"
    /\ Done(r) /\ Resp(r).status = 200
    /\ req[r].q = Some("openai")
    /\ req[r].site.inputQ = Some("openai")
    /\ Resp(r).body.data.query = "openai"

KnownPaths == {"/", "/health", "/search", "/images", "/videos", "/news"}

(* C8: every request to a path other than /, /health, /search, /images,   *)
(* /videos, /news is answered 404 "Endpoint not found", and no routine is *)
(* invoked for it.                                                        *)
C8_UnknownPath404 ==
  \A r \in Reqs :
    req[r].path \notin KnownPaths =>
      /\ req[r].pc \in {"fetch", "done"}
      /\ req[r].trace = <<>>
      /\ Done(r) =>
           /\ Resp(r).status = 404
           /\ Resp(r).body = [kind |-> "error", error |-> "Endpoint not found"]

(* C8, amended: every non-OPTIONS request to such a path is answered 404  *)
(* "Endpoint not found", and no routine is invoked for it.                *)
C8_UnknownPath404UnlessPreflight ==
  \A r \in Reqs :
    (req[r].path \notin KnownPaths /\ req[r].method # "OPTIONS") =>
      /\ req[r].pc \in {"fetch", "done"}
      /\ req[r].trace = <<>>
      /\ req[r].browser = 0
      /\ Done(r) =>
           /\ Resp(r).status = 404
           /\ Resp(r).body = [kind |-> "error", error |-> "Endpoint not found"]

C8_Witness ==
  \E r \in Reqs :
    /\ req[r].path = "/other" /\ req[r].method = "GET"
    /\ Done(r) /\ Resp(r).status = 404

Steps(r) == [i \in 1..Len(req[r].trace) |-> req[r].trace[i].step]
IsPrefix(s, t) == Len(s) <= Len(t) /\ SubSeq(t, 1, Len(s)) = s

(* C9: in each of the four modes the steps run in the order set user      *)
(* agent, navigate, wait for the mode's readiness marker, extract, close; *)
(* the extraction pass runs only after navigation and the readiness wait  *)
(* both succeeded, and a readiness-wait timeout rejects without           *)
(* extracting.                                                            *)
C9_ReadinessBeforeExtraction ==
  \A r \in Reqs :
    \A i \in 1..Len(req[r].trace) :
      req[r].trace[i].step = "evaluate" =>
        \E j, k \in 1..(i - 1) :
          /\ j < k
          /\ req[r].trace[j].step = "goto" /\ req[r].trace[j].ok
          /\ req[r].trace[k].step = "waitForSelector" /\ req[r].trace[k].ok

(* C9, amended: in web, videos and news mode the steps run in the order   *)
(* set user agent, navigate, wait for the mode's marker (#search; .g;     *)
(* .SoaBEf, .WlydOe), extract, close, and the extraction pass runs only   *)
(* after navigation and that wait succeeded; a wait timeout rejects       *)
(* without extracting.  Image mode has no readiness wait: a scroll pass   *)
(* takes its place between navigation and extraction.  In every mode a    *)
(* failed step is followed by close alone.                                *)
C9_StepOrder ==
  \A r \in Reqs :
    LET t == req[r].trace
        n == Len(t)
        images == req[r].path = "/images"
        order == <<"launch", "newPage", "setUserAgent", "goto",
                   IF images THEN "scroll" ELSE "waitForSelector",
                   "evaluate", "close">>
        main == IF n > 0 /\ t[n].arg = "catch" THEN SubSeq(Steps(r), 1, n - 1)
                ELSE Steps(r)
    IN  /\ IsPrefix(main, order)
        /\ \A i \in 1..n :
             /\ t[i].arg = "catch" => i = n /\ i > 1 /\ ~t[i - 1].ok /\ t[i].step = "close"
             /\ ~t[i].ok => \A j \in (i + 1)..n : t[j].step = "close"
             /\ t[i].step = "evaluate" =>
                  /\ t[i - 2].step = "goto" /\ t[i - 2].ok
                  /\ t[i - 1].ok
             /\ t[i].step = "waitForSelector" =>
                  t[i].arg = (CASE req[r].path = "/search" -> "#search"
                                [] req[r].path = "/videos" -> ".g"
                                [] req[r].path = "/news" -> ".SoaBEf, .WlydOe"
                                [] OTHER -> "")
             /\ (t[i].step = "waitForSelector" /\ ~t[i].ok) =>
                  /\ req[r].data = None
                  /\ Done(r) => Resp(r).status = 500

C9_Witness ==
  \E r \in Reqs :
    /\ req[r].path = "/images" /\ Done(r)
    /\ Len(req[r].trace) = 7
    /\ req[r].trace[5] = [step |-> "scroll", ok |-> TRUE, arg |-> ""]
    /\ req[r].trace[6].step = "evaluate" /\ req[r].trace[6].ok
    /\ req[r].trace[7].step = "close" /\ req[r].trace[7].ok

InFlight == {"newPage", "setUserAgent", "goto", "waitForSelector", "scroll",
             "evaluate", "close"}

(* C10: with several requests interleaved, each request has a browser of  *)
(* its own, only its owner uses or closes a browser, a browser stays open *)
(* to its owner until the owner closes it, and a request's status and     *)
(* error come from its own steps alone.                                   *)
C10_RequestsIsolated ==
  /\ \A h \in 1..Len(browsers) :
       /\ browsers[h].closedBy \subseteq {browsers[h].owner}
       /\ browsers[h].usedBy \subseteq {browsers[h].owner}
  /\ \A r \in Reqs :
       /\ req[r].browser # 0 => browsers[req[r].browser].owner = r
       /\ req[r].pc \in InFlight => browsers[req[r].browser].open
       /\ \A s \in Reqs \ {r} :
            req[r].browser # 0 => req[s].browser # req[r].browser
       /\ Done(r) =>
            /\ Resp(r).status = 200 <=> FailedAt(r) = {}
            /\ Resp(r).status = 500 =>
                 \E i \in FailedAt(r) : Resp(r).body.error = ErrMsg(req[r].trace[i].step)

C10_Witness ==
  \E r, s \in Reqs :
    /\ r # s /\ Done(r) /\ Done(s)
    /\ Resp(r).status = 500 /\ Resp(s).status = 200
    /\ req[r].browser # 0 /\ req[s].browser # 0
    /\ req[r].browser > req[s].browser
    /\ browsers[req[r].browser].closedBy = {r}
    /\ browsers[req[s].browser].closedBy = {s}

====
